---- MODULE Spec2Model ----
(***************************************************************************)
(* Model of anvil/region.py: the read-only Region of an Anvil (.mca) file. *)
(* A Region owns the bytes of one file (data) and a list of chunks.  The   *)
(* lookups header_offset, chunk_location, chunk_data and get_chunk are     *)
(* pure functions of data; load() sweeps the 32 x 32 local coordinates and *)
(* appends get_chunk(cx, cz) to chunks.                                    *)
(*                                                                         *)
(* A byte buffer is the record [len, bytes]: len is its length and bytes   *)
(* maps the indices that were written explicitly to their values; every    *)
(* other index below len holds the byte 0.                                 *)
(***************************************************************************)
EXTENDS Integers, Sequences, FiniteSets, TLC

VARIABLES
    name,       \* Region.name
    data,       \* Region.data
    chunks,     \* Region.chunks
    pc,         \* "idle", or "load" while load() is sweeping
    cx, cz,     \* the loop variables of load()
    call,       \* the last call made on the Region and its outcome
    base,       \* len(chunks) when the last load() began
    started,    \* number of load() calls begun
    completed   \* number of load() calls that returned

vars == <<name, data, chunks, pc, cx, cz, call, base, started, completed>>

----------------------------------------------------------------------------
(* Program constants *)

SectorSize == 4096
RegionSide == 32
EntrySize == 4
GZipTag == 1
ZlibTag == 2
AdlerBase == 65521
TagEnd == 0
TagByte == 1
TagCompound == 10

(* Bounds of the model *)

MaxLoads == 2
MaxCoord == 34
MaxOverrun == 2

----------------------------------------------------------------------------
(* bytes objects: indexing, slicing, int.from_bytes *)

Min(a, b) == IF a < b THEN a ELSE b

\* data[i] is defined for 0 <= i < len(data); otherwise IndexError
InRange(d, i) == i >= 0 /\ i < d.len

ByteAt(d, i) == IF i \in DOMAIN d.bytes THEN d.bytes[i] ELSE 0

\* data[a:b] for non-negative a, b: both ends are clamped to len(data)
Slice(d, a, b) ==
    LET lo == Min(a, d.len)
        hi == Min(b, d.len)
    IN  [k \in 1..(hi - lo) |-> ByteAt(d, lo + k - 1)]

RECURSIVE FromBytesBig(_)
FromBytesBig(s) ==
    IF s = <<>> THEN 0
    ELSE FromBytesBig(SubSeq(s, 1, Len(s) - 1)) * 256 + s[Len(s)]

----------------------------------------------------------------------------
(* zlib.decompress, for streams made of stored (uncompressed) deflate      *)
(* blocks.  A stream is CMF FLG, blocks, Adler-32 (big endian); a stored   *)
(* block is a header byte (bit 0 BFINAL, bits 1-2 BTYPE = 0), LEN and NLEN *)
(* (little endian, NLEN = ~LEN) and LEN literal bytes.  Bytes after the    *)
(* checksum are ignored by zlib.decompress.                                *)

RECURSIVE AdlerA(_)
AdlerA(p) ==
    IF p = <<>> THEN 1
    ELSE (AdlerA(SubSeq(p, 1, Len(p) - 1)) + p[Len(p)]) % AdlerBase

RECURSIVE AdlerB(_)
AdlerB(p) ==
    IF p = <<>> THEN 0
    ELSE (AdlerB(SubSeq(p, 1, Len(p) - 1)) + AdlerA(p)) % AdlerBase

Adler32(p) == AdlerB(p) * 65536 + AdlerA(p)

ZError == [kind |-> "error", out |-> <<>>]
ZUnmodelled == [kind |-> "unmodelled", out |-> <<>>]

\* the blocks of a stream starting at index i, with the output so far
RECURSIVE InflateBlocks(_, _, _)
InflateBlocks(c, i, out) ==
    IF i > Len(c) THEN ZError
    ELSE LET bfinal == c[i] % 2
             btype == (c[i] \div 2) % 4
         IN  IF btype = 3 THEN ZError
             ELSE IF btype # 0 THEN ZUnmodelled
             ELSE IF i + 4 > Len(c) THEN ZError
             ELSE LET n == c[i + 1] + 256 * c[i + 2]
                      nn == c[i + 3] + 256 * c[i + 4]
                  IN  IF nn # 65535 - n THEN ZError
                      ELSE IF i + 4 + n > Len(c) THEN ZError
                      ELSE LET o == out \o SubSeq(c, i + 5, i + 4 + n)
                               j == i + 5 + n
                           IN  IF bfinal = 0 THEN InflateBlocks(c, j, o)
                               ELSE IF j + 3 > Len(c) THEN ZError
                               ELSE IF FromBytesBig(SubSeq(c, j, j + 3)) # Adler32(o)
                                    THEN ZError
                               ELSE [kind |-> "ok", out |-> o]

zlib_decompress(c) ==
    IF Len(c) < 2 THEN ZError
    ELSE IF c[1] % 16 # 8 \/ c[1] \div 16 > 7 THEN ZError
    ELSE IF (c[1] * 256 + c[2]) % 31 # 0 THEN ZError
    ELSE IF (c[2] \div 32) % 2 = 1 THEN ZError
    ELSE InflateBlocks(c, 3, <<>>)

----------------------------------------------------------------------------
(* nbt.NBTFile(buffer=...): the first record must be a TAG_Compound; its   *)
(* name is a 2-byte big-endian length and that many bytes; its payload is  *)
(* a list of named tags closed by TAG_End.  TAG_Byte children are decoded. *)

NMalformed == [kind |-> "malformed", tree |-> <<>>]
NUnmodelled == [kind |-> "unmodelled", tree |-> <<>>]

\* the named tags from index i on, with the tags read so far
RECURSIVE ParseTags(_, _, _)
ParseTags(p, i, tags) ==
    IF i > Len(p) THEN NMalformed
    ELSE IF p[i] = TagEnd THEN [kind |-> "ok", tree |-> tags]
    ELSE IF p[i] # TagByte THEN NUnmodelled
    ELSE IF i + 2 > Len(p) THEN NMalformed
    ELSE LET n == p[i + 1] * 256 + p[i + 2]
         IN  IF i + 3 + n > Len(p) THEN NMalformed
             ELSE ParseTags(p, i + 4 + n,
                            Append(tags, [name |-> SubSeq(p, i + 3, i + 2 + n),
                                          value |-> p[i + 3 + n]]))

NBTFile(p) ==
    IF Len(p) < 1 THEN NMalformed
    ELSE IF p[1] # TagCompound THEN NMalformed
    ELSE IF Len(p) < 3 THEN NMalformed
    ELSE LET n == p[2] * 256 + p[3]
         IN  IF 3 + n > Len(p) THEN NMalformed
             ELSE LET r == ParseTags(p, 4 + n, <<>>)
                  IN  IF r.kind # "ok" THEN r
                      ELSE [kind |-> "ok",
                            tree |-> <<SubSeq(p, 4, 3 + n), r.tree>>]

----------------------------------------------------------------------------
(* Region lookups *)

\* header_offset with the truncating remainder of C-like languages
header_offset_truncating(chunk_x, chunk_z) ==
    LET rem(a) == IF a >= 0 THEN a % RegionSide ELSE 0 - ((0 - a) % RegionSide)
    IN  EntrySize * (rem(chunk_x) + (rem(chunk_z) * RegionSide))

\* 4 * (chunk_x % 32 + chunk_z % 32 * 32); Python's % is the floored modulo
\* and binds as tightly as *, so the sum is (x % 32) + ((z % 32) * 32)
header_offset(chunk_x, chunk_z) ==
    EntrySize * ((chunk_x % RegionSide) + ((chunk_z % RegionSide) * RegionSide))

NoLoc == [off |-> 0, sectors |-> 0]

\* result of chunk_location: the pair (off, sectors), or IndexError
chunk_location(d, chunk_x, chunk_z) ==
    LET b_off == header_offset(chunk_x, chunk_z)
        off == FromBytesBig(Slice(d, b_off, b_off + 3))
    IN  IF ~InRange(d, b_off + 3)
        THEN [kind |-> "raise", err |-> "IndexError", loc |-> NoLoc]
        ELSE [kind |-> "ok", err |-> "",
              loc |-> [off |-> off, sectors |-> ByteAt(d, b_off + 3)]]

\* what chunk_data returns: None, or the NBTFile decoded from the payload
NoneValue == [type |-> "None", tree |-> <<>>]
NBTValue(t) == [type |-> "NBTFile", tree |-> t]

\* outcomes of chunk_data: zin lists the arguments zlib.decompress was called
\* with, plain the buffers handed to nbt.NBTFile and rec the byte offsets at
\* which a chunk record was read
CDRaise(e, zin, plain, rec) ==
    [kind |-> "raise", err |-> e, value |-> NoneValue,
     zin |-> zin, plain |-> plain, rec |-> rec]
CDReturn(v, zin, plain, rec) ==
    [kind |-> "return", err |-> "", value |-> v,
     zin |-> zin, plain |-> plain, rec |-> rec]

\* the location compared with the number 0, which no pair equals
not_generated_scalar(loc) == FALSE

\* off == (0, 0): the chunk has not been generated
not_generated(loc) == loc = NoLoc

\* the gzip check left out
is_gzip_unchecked(compression) == FALSE

\* compression == 1
is_gzip(compression) == compression = GZipTag

\* the slice taken as length bytes, tag byte not discounted
compressed_slice_long(d, off, length) == Slice(d, off + 5, off + 5 + length)

\* self.data[off + 5 : off + 5 + length - 1]
compressed_slice(d, off, length) == Slice(d, off + 5, off + 5 + length - 1)

\* nbt.NBTFile(buffer=BytesIO(zlib.decompress(compressed_data)))
decode(compressed_data, rec) ==
    LET z == zlib_decompress(compressed_data)
        n == NBTFile(z.out)
    IN  IF z.kind = "error"
        THEN CDRaise("zlib.error", <<compressed_data>>, <<>>, rec)
        ELSE IF z.kind = "unmodelled"
        THEN CDRaise("unmodelled", <<compressed_data>>, <<>>, rec)
        ELSE IF n.kind = "malformed"
        THEN CDRaise("MalformedFileError", <<compressed_data>>, <<z.out>>, rec)
        ELSE IF n.kind = "unmodelled"
        THEN CDRaise("unmodelled", <<compressed_data>>, <<z.out>>, rec)
        ELSE CDReturn(NBTValue(n.tree), <<compressed_data>>, <<z.out>>, rec)

\* chunk_data
chunk_data(d, chunk_x, chunk_z) ==
    LET l == chunk_location(d, chunk_x, chunk_z)
    IN  IF l.kind = "raise" THEN CDRaise(l.err, <<>>, <<>>, <<>>)
        ELSE IF not_generated(l.loc) THEN CDReturn(NoneValue, <<>>, <<>>, <<>>)
        ELSE
          LET off == l.loc.off * SectorSize
              length == FromBytesBig(Slice(d, off, off + 4))
          IN  IF ~InRange(d, off + 4)
              THEN CDRaise("IndexError", <<>>, <<>>, <<off>>)
              ELSE IF is_gzip(ByteAt(d, off + 4))
              THEN CDRaise("GZipChunkData", <<>>, <<>>, <<off>>)
              ELSE decode(compressed_slice(d, off, length), <<off>>)

\* anvil.Chunk(nbt_data): the chunk wrapper around a decoded tree; the result
\* for an ungenerated chunk (None) is the absent chunk
Absent == [type |-> "absent", tree |-> <<>>]
Chunk(nbt_data) ==
    IF nbt_data.type = "None" THEN Absent
    ELSE [type |-> "Chunk", tree |-> nbt_data.tree]

\* get_chunk: anvil.Chunk(self.chunk_data(chunk_x, chunk_z))
get_chunk(d, chunk_x, chunk_z) ==
    LET r == chunk_data(d, chunk_x, chunk_z)
    IN  IF r.kind = "raise" THEN r
        ELSE [r EXCEPT !.value = Chunk(r.value)]

----------------------------------------------------------------------------
(* Region files the model starts from *)

RECURSIVE BE(_, _)
\* n as k bytes, big endian
BE(n, k) == IF k = 0 THEN <<>> ELSE Append(BE(n \div 256, k - 1), n % 256)

Blank(n) == [len |-> n, bytes |-> <<>>]

\* the buffer d with the bytes s written at index at (cut at the end of d)
Put(d, at, s) ==
    LET new == {i \in at..(at + Len(s) - 1) : i < d.len}
    IN  [len |-> d.len,
         bytes |-> [i \in (DOMAIN d.bytes) \cup new |->
                      IF i \in new THEN s[i - at + 1] ELSE d.bytes[i]]]

\* a zlib stream holding p in one stored block (zlib.compress(p, 0))
ZStored(p) ==
    <<120, 1, 1, Len(p) % 256, Len(p) \div 256,
      255 - (Len(p) % 256), 255 - (Len(p) \div 256)>>
    \o p \o BE(Adler32(p), 4)

\* a chunk record: 4-byte length, compression tag, payload
Record(L, tag, payload) == BE(L, 4) \o <<tag>> \o payload

\* a header entry for (x, z): 3-byte sector offset, sector count
WithEntry(d, x, z, s, cnt) ==
    Put(d, EntrySize * (x + z * RegionSide), BE(s, 3) \o <<cnt>>)

\* a file of n bytes whose chunk (x, z) is the given record at sector s
OneChunk(n, x, z, s, rec) ==
    Put(WithEntry(Blank(n), x, z, s, 1), s * SectorSize, rec)

EmptyTree == <<TagCompound, 0, 0, TagEnd>>
ByteTree == <<TagCompound, 0, 0, TagByte, 0, 1, 65, 7, TagEnd>>
Plaintexts == {EmptyTree, ByteTree, <<>>, <<TagByte>>, <<TagCompound, 0, 0>>}
Tags == {0, GZipTag, ZlibTag, 3, 99}

FileLen == 3 * SectorSize
GoodRecord(tag, p) == Record(Len(ZStored(p)) + 1, tag, ZStored(p))

Regions ==
    \* one generated chunk, every tag and every plaintext
    {OneChunk(FileLen, 5, 9, 2, GoodRecord(t, EmptyTree)) : t \in Tags}
    \cup {OneChunk(FileLen, 5, 9, 2, GoodRecord(ZlibTag, p)) : p \in Plaintexts}
    \cup {OneChunk(FileLen, c[1], c[2], 2, GoodRecord(t, ByteTree)) :
            c \in {<<0, 0>>, <<31, 31>>}, t \in {GZipTag, ZlibTag}}
    \* declared length past the end of the file
    \cup {OneChunk(2 * SectorSize + 4 + Len(ZStored(ByteTree)) + 1, 5, 9, 2,
                   Record(Len(ZStored(ByteTree)) + 1 + k, ZlibTag, ZStored(ByteTree))) :
            k \in 1..MaxOverrun}
    \cup {OneChunk(FileLen, 5, 9, 2, Record(SectorSize, ZlibTag, ZStored(EmptyTree)))}
    \* declared length shorter than the stream
    \cup {OneChunk(FileLen, 5, 9, 2, Record(L, ZlibTag, ZStored(EmptyTree))) :
            L \in {0, 1, Len(ZStored(EmptyTree))}}
    \* file cut inside the record, sector offset past the end of the file
    \cup {OneChunk(n, 5, 9, 2, GoodRecord(ZlibTag, EmptyTree)) :
            n \in {2 * SectorSize + 4, 2 * SectorSize + 9}}
    \cup {OneChunk(FileLen, 5, 9, 7, <<>>)}
    \* entries (0, 1) and (2, 0)
    \cup {WithEntry(Blank(FileLen), 5, 9, 0, 1),
          Put(WithEntry(Blank(FileLen), 5, 9, 2, 0), 2 * SectorSize,
              GoodRecord(ZlibTag, EmptyTree))}
    \* wrong checksum
    \cup {Put(OneChunk(FileLen, 5, 9, 2, GoodRecord(ZlibTag, EmptyTree)),
              2 * SectorSize + 5 + Len(ZStored(EmptyTree)) - 1, <<255>>)}
    \* no generated chunk; files shorter than the header
    \cup {Blank(2 * SectorSize), Blank(SectorSize \div 2), Blank(0)}
    \* two generated chunks
    \cup {Put(WithEntry(OneChunk(4 * SectorSize, 5, 9, 2, GoodRecord(ZlibTag, EmptyTree)),
                        9, 5, 3, 1),
              3 * SectorSize, GoodRecord(t, ByteTree)) : t \in {GZipTag, ZlibTag, 3}}

\* coordinates the lookups are called with
QueryCoords ==
    {<<5, 9>>, <<-27, 41>>, <<37, -23>>, <<9, 5>>, <<0, 0>>, <<31, 31>>,
     <<-1, -1>>, <<3, 4>>}

----------------------------------------------------------------------------
(* The Region object *)

NoCall == [op |-> "__init__", x |-> 0, z |-> 0, kind |-> "return", err |-> "",
           num |-> 0, loc |-> NoLoc, value |-> NoneValue, zin |-> <<>>,
           plain |-> <<>>, rec |-> <<>>]

\* the record of a call of op(x, z) with the outcome r of chunk_data or get_chunk
Outcome(op, x, z, r) ==
    [NoCall EXCEPT !.op = op, !.x = x, !.z = z, !.kind = r.kind, !.err = r.err,
                   !.value = r.value, !.zin = r.zin, !.plain = r.plain, !.rec = r.rec]

\* __init__: name, the bytes of the file, no chunks
Init ==
    /\ name = "r.0.0.mca"
    /\ data \in Regions
    /\ chunks = <<>>
    /\ pc = "idle"
    /\ cx = 0
    /\ cz = 0
    /\ call = NoCall
    /\ base = 0
    /\ started = 0
    /\ completed = 0

\* Region.header_offset(x, z) is called
HeaderOffsetOf(x, z) ==
    /\ pc = "idle"
    /\ call' = [NoCall EXCEPT !.op = "header_offset", !.x = x, !.z = z,
                              !.num = header_offset(x, z)]
    /\ UNCHANGED <<name, data, chunks, pc, cx, cz, base, started, completed>>

HeaderOffsetCall == \E c \in QueryCoords : HeaderOffsetOf(c[1], c[2])

ChunkLocationCall ==
    /\ pc = "idle"
    /\ \E c \in QueryCoords :
         LET x == c[1]
             z == c[2]
             l == chunk_location(data, x, z)
         IN  call' = [NoCall EXCEPT !.op = "chunk_location", !.x = x, !.z = z,
                                    !.kind = IF l.kind = "ok" THEN "return" ELSE "raise",
                                    !.err = l.err, !.loc = l.loc]
    /\ UNCHANGED <<name, data, chunks, pc, cx, cz, base, started, completed>>

ChunkDataCall ==
    /\ pc = "idle"
    /\ \E c \in QueryCoords :
         LET x == c[1]
             z == c[2]
         IN  call' = Outcome("chunk_data", x, z, chunk_data(data, x, z))
    /\ UNCHANGED <<name, data, chunks, pc, cx, cz, base, started, completed>>

\* get_chunk keeping its result in chunks
GetChunkCallCaching ==
    /\ pc = "idle"
    /\ \E c \in QueryCoords :
         LET r == get_chunk(data, c[1], c[2])
         IN  /\ call' = Outcome("get_chunk", c[1], c[2], r)
             /\ chunks' = IF r.kind = "return" THEN Append(chunks, r.value) ELSE chunks
    /\ UNCHANGED <<name, data, pc, cx, cz, base, started, completed>>

GetChunkCall ==
    /\ pc = "idle"
    /\ \E c \in QueryCoords :
         LET x == c[1]
             z == c[2]
         IN  call' = Outcome("get_chunk", x, z, get_chunk(data, x, z))
    /\ UNCHANGED <<name, data, chunks, pc, cx, cz, base, started, completed>>

\* load() is called: the sweep starts at cx = 0, cz = 0
LoadBegin ==
    /\ pc = "idle"
    /\ started < MaxLoads
    /\ pc' = "load"
    /\ cx' = 0
    /\ cz' = 0
    /\ base' = Len(chunks)
    /\ started' = started + 1
    /\ call' = [NoCall EXCEPT !.op = "load", !.kind = "called"]
    /\ UNCHANGED <<name, data, chunks, completed>>

\* the sweep collecting per-chunk failures as absent entries
LoadIterCollecting(r) ==
    /\ pc = "load"
    /\ chunks' = Append(chunks, IF r.kind = "raise" THEN Absent ELSE r.value)
    /\ call' = Outcome("load", cx, cz, [r EXCEPT !.kind = "running"])
    /\ IF cz + 1 < RegionSide
       THEN cz' = cz + 1 /\ UNCHANGED <<cx, pc, completed>>
       ELSE IF cx + 1 < RegionSide
       THEN cx' = cx + 1 /\ cz' = 0 /\ UNCHANGED <<pc, completed>>
       ELSE pc' = "idle" /\ completed' = completed + 1 /\ UNCHANGED <<cx, cz>>
    /\ UNCHANGED <<name, data, base, started>>

\* one iteration of the inner loop, r being the outcome of get_chunk(cx, cz):
\* self.chunks.append(r); an exception leaves load(), the last iteration
\* returns from it
LoadIter(r) ==
    /\ pc = "load"
    /\ IF r.kind = "raise"
       THEN /\ call' = Outcome("load", cx, cz, r)
            /\ pc' = "idle"
            /\ UNCHANGED <<chunks, cx, cz, completed>>
       ELSE /\ chunks' = Append(chunks, r.value)
            /\ IF cz + 1 < RegionSide
               THEN /\ cz' = cz + 1
                    /\ UNCHANGED <<cx, pc, completed>>
                    /\ call' = Outcome("load", cx, cz, [r EXCEPT !.kind = "running"])
               ELSE IF cx + 1 < RegionSide
               THEN /\ cx' = cx + 1
                    /\ cz' = 0
                    /\ UNCHANGED <<pc, completed>>
                    /\ call' = Outcome("load", cx, cz, [r EXCEPT !.kind = "running"])
               ELSE /\ pc' = "idle"
                    /\ completed' = completed + 1
                    /\ UNCHANGED <<cx, cz>>
                    /\ call' = Outcome("load", cx, cz, r)
    /\ UNCHANGED <<name, data, base, started>>

\* the sweep with cz outside and cx inside
LoadStepTransposed == LoadIter(get_chunk(data, cz, cx))

\* for cx in range(32): for cz in range(32): ... get_chunk(cx, cz)
LoadStep == LoadIter(get_chunk(data, cx, cz))

Next ==
    \/ HeaderOffsetCall
    \/ ChunkLocationCall
    \/ ChunkDataCall
    \/ GetChunkCall
    \/ LoadBegin
    \/ LoadStep

Spec == Init /\ [][Next]_vars

\* header_offset on its own, over a range of positive and negative coordinates
Coords == (0 - MaxCoord)..MaxCoord

\* the arguments of a call of header_offset that is about to be made
Pending(x, z) == [NoCall EXCEPT !.op = "pending", !.x = x, !.z = z]

InitHeader ==
    /\ name = "r.0.0.mca"
    /\ data = Blank(2 * SectorSize)
    /\ chunks = <<>>
    /\ pc = "idle"
    /\ cx = 0
    /\ cz = 0
    /\ \E x \in Coords, z \in Coords : call = Pending(x, z)
    /\ base = 0
    /\ started = 0
    /\ completed = 0

NextHeader == call.op = "pending" /\ HeaderOffsetOf(call.x, call.z)

SpecHeader == InitHeader /\ [][NextHeader]_vars

\* every call stays within the streams and trees the decoders above cover
Modelled == call.err # "unmodelled"

----------------------------------------------------------------------------
(* Properties *)

Lookups == {"chunk_location", "chunk_data", "get_chunk"}

\* the header entry of (x, z), read independently of the lookups: the index
\* of its first byte, whether the file holds it, and its two fields
EntryAt(x, z) ==
    LET nx == CHOOSE r \in 0..31 : \E q \in (0 - 3)..3 : x = 32 * q + r
        nz == CHOOSE r \in 0..31 : \E q \in (0 - 3)..3 : z = 32 * q + r
    IN  4 * (nx + 32 * nz)
EntryHeld(x, z) == EntryAt(x, z) + 4 <= data.len
EntrySector(x, z) ==
    65536 * ByteAt(data, EntryAt(x, z)) + 256 * ByteAt(data, EntryAt(x, z) + 1)
    + ByteAt(data, EntryAt(x, z) + 2)
EntryCount(x, z) == ByteAt(data, EntryAt(x, z) + 3)
Generated(x, z) ==
    EntryHeld(x, z) /\ (EntrySector(x, z) # 0 \/ EntryCount(x, z) # 0)
\* the record of (x, z): where it starts, its declared length and its tag
RecordAt(x, z) == 4096 * EntrySector(x, z)
RecordLen(x, z) ==
    16777216 * ByteAt(data, RecordAt(x, z)) + 65536 * ByteAt(data, RecordAt(x, z) + 1)
    + 256 * ByteAt(data, RecordAt(x, z) + 2) + ByteAt(data, RecordAt(x, z) + 3)
RecordTag(x, z) == ByteAt(data, RecordAt(x, z) + 4)
\* the record's header (length and tag) lies inside the file
RecordHeld(x, z) == Generated(x, z) /\ RecordAt(x, z) + 5 <= data.len


\* C1: for all integers x and z, negative ones included, header_offset(x, z)
\* is 4 * ((x mod 32) + (z mod 32) * 32) with the floored modulo; it is the
\* same for x + 32 and for z + 32, lies in [0, 4092] and is a multiple of 4.
HeaderOffsetContract ==
    call.op = "header_offset" =>
        /\ call.num = EntryAt(call.x, call.z)
        /\ call.num = header_offset(call.x + 32, call.z)
        /\ call.num = header_offset(call.x, call.z + 32)
        /\ call.num \in 0..4092
        /\ call.num % 4 = 0

HeaderOffsetNegative ==
    call.op = "header_offset" /\ call.x = 0 - 1 /\ call.z = 0 - 33 /\ call.num = 4092

\* C2: when the header entry of (x, z) is four zero bytes, chunk_data and
\* get_chunk return the absent result without an error, and no chunk record
\* is read and nothing is decompressed.
AbsentOnZeroEntry ==
    (call.op \in {"chunk_data", "get_chunk"}
         /\ EntryHeld(call.x, call.z) /\ ~Generated(call.x, call.z)) =>
        /\ call.kind = "return"
        /\ call.value = IF call.op = "chunk_data" THEN NoneValue ELSE Absent
        /\ call.rec = <<>>
        /\ call.zin = <<>>

AbsentReturned ==
    /\ call.op = "get_chunk" /\ call.x = 3 /\ call.z = 4
    /\ call.value = Absent /\ call.kind = "return"
    /\ Generated(5, 9)

\* C3: when the entry of (x, z) has sector offset s # 0 and the record at
\* s * 4096 is a length L, the tag 2 and L - 1 bytes that are the zlib
\* stream of a plaintext P, chunk_data inflates exactly the bytes
\* [s*4096 + 5, s*4096 + 4 + L) and hands exactly P to the tree decoder.
RoundTrip ==
    \A P \in Plaintexts :
        (/\ call.op = "chunk_data"
         /\ RecordHeld(call.x, call.z)
         /\ EntrySector(call.x, call.z) # 0
         /\ RecordTag(call.x, call.z) = 2
         /\ RecordLen(call.x, call.z) = Len(ZStored(P)) + 1
         /\ RecordAt(call.x, call.z) + 4 + RecordLen(call.x, call.z) <= data.len
         /\ \A k \in 1..Len(ZStored(P)) :
                ByteAt(data, RecordAt(call.x, call.z) + 4 + k) = ZStored(P)[k]) =>
            /\ call.zin = <<ZStored(P)>>
            /\ call.plain = <<P>>
            /\ call.rec = <<RecordAt(call.x, call.z)>>

RoundTripDone ==
    /\ call.op = "chunk_data" /\ call.x = 0 - 27 /\ call.z = 41
    /\ call.kind = "return"
    /\ call.plain = <<ByteTree>>
    /\ call.value.type = "NBTFile"

\* C4: when the record of a generated chunk carries the tag 1 (gzip), the
\* retrieval raises GZipChunkData and zlib.decompress is never called.
GZipRejected ==
    (call.op \in {"chunk_data", "get_chunk"}
         /\ RecordHeld(call.x, call.z) /\ RecordTag(call.x, call.z) = 1) =>
        /\ call.kind = "raise"
        /\ call.err = "GZipChunkData"
        /\ call.zin = <<>>

GZipRaised ==
    /\ call.op = "get_chunk" /\ call.kind = "raise" /\ call.err = "GZipChunkData"
    /\ RecordTag(call.x, call.z) = 1

\* C5: when the record of a generated chunk carries a tag that is neither 1
\* nor 2, the retrieval raises UnsupportedCompression and no decompression
\* is attempted.
UnknownTagRejected ==
    (call.op \in {"chunk_data", "get_chunk"}
         /\ RecordHeld(call.x, call.z) /\ RecordTag(call.x, call.z) \notin {1, 2}) =>
        /\ call.kind = "raise"
        /\ call.err = "UnsupportedCompression"
        /\ call.zin = <<>>

\* C6: when the declared length L of a generated chunk's record makes it end
\* past the end of the file, the retrieval raises an out-of-bounds error
\* before slicing: nothing, shortened or not, reaches the decompressor.
OverrunDetected ==
    (call.op \in {"chunk_data", "get_chunk"}
         /\ Generated(call.x, call.z)
         /\ RecordAt(call.x, call.z) + 4 <= data.len
         /\ RecordAt(call.x, call.z) + 4 + RecordLen(call.x, call.z) > data.len) =>
        /\ call.kind = "raise"
        /\ call.err = "OutOfBounds"
        /\ call.zin = <<>>

\* C7: a first load() in which every retrieval succeeds leaves 1024 entries,
\* the entry at index 32 * x + z being the result of get_chunk(x, z), absent
\* chunks included; with one generated chunk at (5, 9), that entry is present
\* and the other 1023 are absent.
SweepOrder ==
    (call.op = "load" /\ call.kind = "return" /\ started = 1) =>
        /\ Len(chunks) = 1024
        /\ \A x \in 0..31, z \in 0..31 :
               /\ get_chunk(data, x, z).kind = "return"
               /\ chunks[32 * x + z + 1] = get_chunk(data, x, z).value
               /\ ~Generated(x, z) => chunks[32 * x + z + 1] = Absent
        /\ (\A x \in 0..31, z \in 0..31 : Generated(x, z) <=> (x = 5 /\ z = 9)) =>
               \A i \in 1..1024 :
                   IF i = 32 * 5 + 9 + 1 THEN chunks[i].type = "Chunk"
                   ELSE chunks[i] = Absent

SweepDone ==
    /\ call.op = "load" /\ call.kind = "return" /\ started = 1
    /\ Generated(5, 9) /\ ~Generated(9, 5)
    /\ chunks[170].type = "Chunk"
    /\ Cardinality({i \in 1..Len(chunks) : chunks[i] # Absent}) = 1

\* C8: after one or more load() calls that all completed, chunks has exactly
\* 1024 entries.
ChunksAlways1024 ==
    (pc = "idle" /\ completed >= 1 /\ completed = started) => Len(chunks) = 1024

\* C9: the first retrieval that fails during a sweep ends load(): the same
\* error reaches the caller, no later coordinate is retrieved and nothing is
\* appended for the failing coordinate or a later one.
AbortOnFirstFailure ==
    /\ [][(pc = "load" /\ get_chunk(data, cx, cz).kind = "raise") =>
              /\ pc' = "idle"
              /\ chunks' = chunks
              /\ call'.op = "load" /\ call'.kind = "raise"
              /\ call'.err = get_chunk(data, cx, cz).err
              /\ call'.x = cx /\ call'.z = cz
              /\ completed' = completed]_vars
    /\ []((call.op = "load" /\ call.kind = "raise") =>
              /\ pc = "idle"
              /\ Len(chunks) = base + 32 * call.x + call.z
              /\ \A i \in 1..(32 * call.x + call.z) :
                     get_chunk(data, (i - 1) \div 32, (i - 1) % 32).kind = "return")

SweepAborted ==
    /\ call.op = "load" /\ call.kind = "raise" /\ call.err = "GZipChunkData"
    /\ call.x = 9 /\ call.z = 5
    /\ Len(chunks) = base + 293
    /\ chunks[base + 170].type = "Chunk"

\* C10: header_offset, chunk_location, chunk_data and get_chunk leave data,
\* name and chunks unchanged whatever their outcome; load() changes only
\* chunks, by appending, never data; a lookup repeated with the same
\* coordinates has the same outcome.
FrameEffect ==
    [][/\ data' = data
       /\ name' = name
       /\ (call'.op \in Lookups \cup {"header_offset"}) => chunks' = chunks
       /\ chunks' # chunks =>
              /\ pc = "load"
              /\ Len(chunks') = Len(chunks) + 1
              /\ SubSeq(chunks', 1, Len(chunks)) = chunks
       /\ (call.op \in Lookups /\ call'.op = call.op
               /\ call'.x = call.x /\ call'.z = call.z) => call' = call]_vars

LookupAfterLoad ==
    /\ call.op = "get_chunk" /\ call.kind = "return" /\ call.value.type = "Chunk"
    /\ completed = 1
    /\ Len(chunks) = 1024

====
